---- MODULE Spec2Model ----
(***************************************************************************)
(* A model of package htmlnode (src/htmlnode.go): node comparison,         *)
(* ancestor-chain matching, the depth first traversal primitives Next and  *)
(* Prev, and Find, Flatten and PrintTree built on them.                    *)
(*                                                                         *)
(* The heap of html.Node values is a function from node ids to records     *)
(* with the fields of html.Node; the nil pointer is the id 0.  Strings are *)
(* sequences of one-character strings, so that concatenation, trimming     *)
(* and slicing are computed as the code computes them.                     *)
(***************************************************************************)
EXTENDS Integers, Sequences, FiniteSets, TLC

VARIABLES nodes, call

vars == <<nodes, call>>

nil == 0

-----------------------------------------------------------------------------
(* Bounds of the model *)

\* number of nodes of a document tree
MaxNodes == 4
\* number of nodes of the parse of a fragment
MaxFrag == 2
\* length of the target chain of the matcher's inputs
MaxDocChain == 3
\* length of the pattern chain of the matcher's inputs
MaxPatChain == 2

-----------------------------------------------------------------------------
(* html.Node values *)

Attribute(ns, key, val) == [Namespace |-> ns, Key |-> key, Val |-> val]

Shape(type, data, ns, attr) ==
    [Type |-> type, Data |-> data, Namespace |-> ns, Attr |-> attr]

Str_div == <<"d", "i", "v">>
Str_a == <<"a">>
Str_body == <<"b", "o", "d", "y">>
Str_svg == <<"s", "v", "g">>

Attr_id1 == Attribute(<<>>, <<"i", "d">>, <<"1">>)
Attr_id2 == Attribute(<<>>, <<"i", "d">>, <<"2">>)
Attr_b2 == Attribute(<<>>, <<"b">>, <<"2">>)
Attr_nsid1 == Attribute(Str_svg, <<"i", "d">>, <<"1">>)

\* the node &html.Node{Type: html.ErrorNode}
ErrorShape == Shape("ErrorNode", <<>>, <<>>, <<>>)

\* labels of the nodes of a document tree
DocShapes ==
    { Shape("ElementNode", Str_div, <<>>, <<Attr_id1>>),
      Shape("TextNode", <<" ", "x">>, <<>>, <<>>),
      Shape("TextNode", <<" ", "\n">>, <<>>, <<>>) }

\* labels of the nodes a fragment parses to
FragShapes ==
    { Shape("ElementNode", Str_div, <<>>, <<>>),
      Shape("ElementNode", Str_a, <<>>, <<>>),
      Shape("TextNode", <<" ", "x">>, <<>>, <<>>) }

\* labels of the nodes of the matcher's chains
ChainShapes ==
    { Shape("ElementNode", Str_body, <<>>, <<>>),
      Shape("ElementNode", Str_div, <<>>, <<>>),
      Shape("ElementNode", Str_a, <<>>, <<>>) }

\* labels of the comparator's inputs
AttrLists ==
    { <<>>, <<Attr_id1>>, <<Attr_id1, Attr_b2>>, <<Attr_b2, Attr_id1>>,
      <<Attr_id2>>, <<Attr_nsid1>>, <<Attr_id1, Attr_id1>> }

CompareShapes ==
    { Shape(t, d, ns, at) : t \in {"ElementNode", "CommentNode"},
                            d \in {Str_div, Str_a},
                            ns \in {<<>>, Str_svg},
                            at \in AttrLists }

-----------------------------------------------------------------------------
(* Building a heap from a parent vector: par[i] is the parent of node i    *)
(* (0 for none), the children of a node are ordered by id, and a node      *)
(* without a parent has no siblings.                                       *)

SetMin(S) == CHOOSE x \in S : \A y \in S : x <= y
SetMax(S) == CHOOSE x \in S : \A y \in S : x >= y

RECURSIVE AncSelf(_, _)
AncSelf(par, i) == IF i = 0 THEN {} ELSE {i} \cup AncSelf(par, par[i])

\* parent vectors of the trees of n nodes, numbered in pre-order
TreeVecs(n) ==
    { par \in [1..n -> 0..(n - 1)] :
        /\ par[1] = 0
        /\ \A i \in 2..n : par[i] \in AncSelf(par, i - 1) }

\* parent vectors of the forests of n nodes, numbered in pre-order
ForestVecs(n) ==
    { par \in [1..n -> 0..(n - 1)] :
        \A i \in 1..n : par[i] = 0 \/ (i > 1 /\ par[i] \in AncSelf(par, i - 1)) }

MkHeap(base, par, lab) ==
    LET n == Len(par)
        Off(p) == IF p = 0 THEN nil ELSE base + p
        Kids(p) == { j \in 1..n : par[j] = p }
        Later(i) == { j \in 1..n : j > i /\ par[i] # 0 /\ par[j] = par[i] }
        Earlier(i) == { j \in 1..n : j < i /\ par[i] # 0 /\ par[j] = par[i] }
        Pick(S, min) == IF S = {} THEN nil
                        ELSE Off(IF min THEN SetMin(S) ELSE SetMax(S))
    IN  [ id \in (base + 1)..(base + n) |->
            LET i == id - base
            IN  [ Type |-> lab[i].Type,
                  Data |-> lab[i].Data,
                  Namespace |-> lab[i].Namespace,
                  Attr |-> lab[i].Attr,
                  Parent |-> Off(par[i]),
                  FirstChild |-> Pick(Kids(i), TRUE),
                  LastChild |-> Pick(Kids(i), FALSE),
                  NextSibling |-> Pick(Later(i), TRUE),
                  PrevSibling |-> Pick(Earlier(i), FALSE) ] ]

-----------------------------------------------------------------------------
(* Compare and Match *)

\* Compare without the attribute loop
CompareNoAttr(h, n1, n2) ==
    IF n1 = nil \/ n2 = nil THEN FALSE
    ELSE ~ ( \/ h[n1].Type # h[n2].Type
             \/ h[n1].Data # h[n2].Data
             \/ h[n1].Namespace # h[n2].Namespace )

Compare(h, n1, n2) ==
    IF n1 = nil \/ n2 = nil THEN FALSE
    ELSE IF \/ h[n1].Type # h[n2].Type
            \/ h[n1].Data # h[n2].Data
            \/ h[n1].Namespace # h[n2].Namespace
         THEN FALSE
         ELSE LET am == { h[n1].Attr[i] : i \in DOMAIN h[n1].Attr }
              IN  \A i \in DOMAIN h[n2].Attr : h[n2].Attr[i] \in am

\* Match without the test that n1's chain ran out before n2's
RECURSIVE MatchNoShort(_, _, _)
MatchNoShort(h, n1, n2) ==
    IF n1 # nil /\ n2 # nil
    THEN IF ~Compare(h, n1, n2) THEN FALSE
         ELSE MatchNoShort(h, h[n1].Parent, h[n2].Parent)
    ELSE TRUE

\* Match comparing the two nodes alone, not their parents
MatchNoParents(h, n1, n2) ==
    IF n1 # nil /\ n2 # nil THEN Compare(h, n1, n2)
    ELSE IF n1 = nil /\ n2 # nil THEN FALSE ELSE TRUE

RECURSIVE Match(_, _, _)
Match(h, n1, n2) ==
    IF n1 # nil /\ n2 # nil
    THEN IF ~Compare(h, n1, n2) THEN FALSE
         ELSE Match(h, h[n1].Parent, h[n2].Parent)
    ELSE IF n1 = nil /\ n2 # nil THEN FALSE ELSE TRUE

-----------------------------------------------------------------------------
(* Leaf: html.ParseFragment is the external parser; a fragment is given by *)
(* what it parses to: an error, or a forest (possibly empty) of nodes      *)
(* whose roots, in order, are the returned slice ns.                       *)

BadFragment == [bad |-> TRUE, par |-> <<>>, lab |-> <<>>]

FragmentsOf(n) ==
    { [bad |-> FALSE, par |-> par, lab |-> lab] :
        par \in ForestVecs(n), lab \in [1..n -> FragShapes] }

Fragments ==
    {BadFragment} \cup
    { f \in UNION { FragmentsOf(n) : n \in 0..MaxFrag } :
        \A i \in DOMAIN f.par :
            f.lab[i].Type = "TextNode" => \A j \in DOMAIN f.par : f.par[j] # i }

\* ids of the nodes of a parsed fragment follow those of every other heap
FragBase == MaxNodes + MaxDocChain + MaxPatChain

ParseFragment(fragment) ==
    IF fragment.bad
    THEN [err |-> TRUE, ns |-> <<>>, heap |-> <<>>]
    ELSE LET n == Len(fragment.par)
             roots == { i \in 1..n : fragment.par[i] = 0 }
             Nth[k \in 1..Cardinality(roots)] ==
                 IF k = 1 THEN SetMin(roots)
                 ELSE SetMin({ i \in roots : i > Nth[k - 1] })
         IN  [ err |-> FALSE,
               ns |-> [k \in 1..Cardinality(roots) |-> FragBase + Nth[k]],
               heap |-> MkHeap(FragBase, fragment.par, fragment.lab) ]

RECURSIVE Descend(_, _)
Descend(h, n) == IF h[n].FirstChild # nil THEN Descend(h, h[n].FirstChild) ELSE n

\* Leaf returning the first parsed root, without following FirstChild
LeafNoDescend(fragment) ==
    LET p == ParseFragment(fragment)
    IN  IF p.err \/ Len(p.ns) = 0
        THEN [heap |-> MkHeap(FragBase, <<0>>, <<ErrorShape>>), n |-> FragBase + 1]
        ELSE [heap |-> p.heap, n |-> p.ns[1]]

\* the result of Leaf: the returned node and the heap it lives in
Leaf(fragment) ==
    LET p == ParseFragment(fragment)
    IN  IF p.err \/ Len(p.ns) = 0
        THEN [heap |-> MkHeap(FragBase, <<0>>, <<ErrorShape>>), n |-> FragBase + 1]
        ELSE IF p.ns[1] = nil THEN [heap |-> p.heap, n |-> nil]
             ELSE [heap |-> p.heap, n |-> Descend(p.heap, p.ns[1])]

-----------------------------------------------------------------------------
(* Next and Prev: the result is the returned node and the delta *)

RECURSIVE NextAscend(_, _, _, _)
NextAscend(h, n, root, delta) ==
    IF h[n].NextSibling = nil
    THEN IF h[n].Parent = nil \/ n = root
         THEN [n |-> nil, delta |-> delta]
         ELSE NextAscend(h, h[n].Parent, root, delta - 1)
    ELSE IF n = root
         THEN [n |-> nil, delta |-> delta]
         ELSE [n |-> h[n].NextSibling, delta |-> delta]

\* the ascent of Next without the tests against root
RECURSIVE NextAscendUnbounded(_, _, _)
NextAscendUnbounded(h, n, delta) ==
    IF h[n].NextSibling = nil
    THEN IF h[n].Parent = nil
         THEN [n |-> nil, delta |-> delta]
         ELSE NextAscendUnbounded(h, h[n].Parent, delta - 1)
    ELSE [n |-> h[n].NextSibling, delta |-> delta]

\* Next that leaves the subtree of root
NextUnbounded(h, n, root) ==
    IF n = nil THEN [n |-> nil, delta |-> 0]
    ELSE IF h[n].FirstChild # nil
         THEN [n |-> h[n].FirstChild, delta |-> 1]
         ELSE NextAscendUnbounded(h, n, 0)

\* Next that does not count its ascents
NextNoDelta(h, n, root) ==
    IF n = nil THEN [n |-> nil, delta |-> 0]
    ELSE IF h[n].FirstChild # nil
         THEN [n |-> h[n].FirstChild, delta |-> 1]
         ELSE [n |-> NextAscend(h, n, root, 0).n, delta |-> 0]

Next(h, n, root) ==
    IF n = nil THEN [n |-> nil, delta |-> 0]
    ELSE IF h[n].FirstChild # nil
         THEN [n |-> h[n].FirstChild, delta |-> 1]
         ELSE NextAscend(h, n, root, 0)

RECURSIVE PrevAscend(_, _, _, _)
PrevAscend(h, n, root, delta) ==
    IF h[n].PrevSibling = nil
    THEN IF h[n].Parent = nil \/ n = root
         THEN [n |-> nil, delta |-> delta]
         ELSE PrevAscend(h, h[n].Parent, root, delta - 1)
    ELSE IF n = root
         THEN [n |-> nil, delta |-> delta]
         ELSE [n |-> h[n].PrevSibling, delta |-> delta]

Prev(h, n, root) ==
    IF n = nil THEN [n |-> nil, delta |-> 0]
    ELSE IF h[n].LastChild # nil
         THEN [n |-> h[n].LastChild, delta |-> 1]
         ELSE PrevAscend(h, n, root, 0)

-----------------------------------------------------------------------------
(* Find and Flatten *)

RECURSIVE FindLoop(_, _, _, _, _)
FindLoop(h, n, root, n2, result) ==
    IF n # nil
    THEN FindLoop(h, Next(h, n, root).n, root, n2,
                  IF Match(h, n, n2) THEN Append(result, n) ELSE result)
    ELSE result

\* Find that does not test root itself
FindSkipRoot(h, root, fragment) ==
    LET leaf == Leaf(fragment)
    IN  FindLoop(h @@ leaf.heap, Next(h, root, root).n, root, leaf.n, <<>>)

Find(h, root, fragment) ==
    LET leaf == Leaf(fragment)
    IN  FindLoop(h @@ leaf.heap, root, root, leaf.n, <<>>)

RECURSIVE FlattenLoop(_, _, _, _)
FlattenLoop(h, n, root, s) ==
    IF n # nil
    THEN FlattenLoop(h, Next(h, n, root).n, root,
                     IF h[n].Type = "TextNode" THEN s \o h[n].Data ELSE s)
    ELSE s

\* Flatten that puts each text in front of the result
RECURSIVE FlattenLoopPrepend(_, _, _, _)
FlattenLoopPrepend(h, n, root, s) ==
    IF n # nil
    THEN FlattenLoopPrepend(h, Next(h, n, root).n, root,
                            IF h[n].Type = "TextNode" THEN h[n].Data \o s ELSE s)
    ELSE s

FlattenPrepend(h, root) == FlattenLoopPrepend(h, root, root, <<>>)

Flatten(h, root) == FlattenLoop(h, root, root, <<>>)

-----------------------------------------------------------------------------
(* String: an ANSI escape code is one symbol of the string *)

red == "ESC[31m"
gre == "ESC[32m"
yel == "ESC[33m"
blu == "ESC[34m"
mag == "ESC[35m"
cya == "ESC[36m"
rst == "ESC[0m"

\* strings.Split(str, "\n")
RECURSIVE SplitLines(_, _, _)
SplitLines(str, i, seg) ==
    IF i > Len(str) THEN <<seg>>
    ELSE IF str[i] = "\n" THEN <<seg>> \o SplitLines(str, i + 1, <<>>)
         ELSE SplitLines(str, i + 1, Append(seg, str[i]))

RECURSIVE ColourLines(_, _, _)
ColourLines(segs, i, col) ==
    IF i > Len(segs) THEN <<>>
    ELSE <<col>> \o segs[i] \o <<rst>> \o <<"\n">> \o ColourLines(segs, i + 1, col)

\* the closure c of String
Colourize(str, col, colour) ==
    IF colour
    THEN LET cs == ColourLines(SplitLines(str, 1, <<>>), 1, col)
         IN  SubSeq(cs, 1, Len(cs) - 1)
    ELSE str

\* fmt.Sprintf("%#v", val) of a string that needs no escapes
Quoted(val) == <<"\"">> \o val \o <<"\"">>

RECURSIVE AttrsString(_, _, _)
AttrsString(attr, i, colour) ==
    IF i > Len(attr) THEN <<>>
    ELSE LET a == attr[i]
             key == Colourize(a.Key, yel, colour)
             name == IF a.Namespace # <<>>
                     THEN Colourize(a.Namespace, yel, colour) \o <<":">> \o key
                     ELSE key
         IN  <<" ">> \o name \o <<"=">> \o Colourize(Quoted(a.Val), cya, colour)
                 \o AttrsString(attr, i + 1, colour)

String(h, n, colour) ==
    IF n = nil THEN <<>>
    ELSE CASE h[n].Type = "ErrorNode" ->
                Colourize(<<"X", " ">>, mag, colour) \o Colourize(h[n].Data, blu, colour)
           [] h[n].Type = "TextNode" ->
                Colourize(<<"T", " ">>, mag, colour) \o h[n].Data
           [] h[n].Type = "DocumentNode" ->
                Colourize(<<"R", " ">>, mag, colour) \o Colourize(h[n].Data, blu, colour)
           [] h[n].Type = "ElementNode" ->
                LET name == IF h[n].Namespace # <<>>
                            THEN Colourize(h[n].Namespace, red, colour) \o <<":">>
                                     \o Colourize(h[n].Data, red, colour)
                            ELSE Colourize(h[n].Data, red, colour)
                IN  Colourize(<<"E", " ">>, mag, colour) \o name
                        \o AttrsString(h[n].Attr, 1, colour)
           [] h[n].Type = "CommentNode" ->
                Colourize(<<"C", " ">>, mag, colour) \o Colourize(h[n].Data, gre, colour)
           [] h[n].Type = "DoctypeNode" ->
                Colourize(<<"D", " ">>, mag, colour) \o Colourize(h[n].Data, blu, colour)
           [] OTHER -> <<>>

-----------------------------------------------------------------------------
(* PrintTree *)

\* the cutset "\r\n\t " of the call of strings.Trim
Cutset == {"\r", "\n", "\t", " "}

RECURSIVE TrimLeft(_, _)
TrimLeft(s, cutset) ==
    IF s # <<>> /\ Head(s) \in cutset THEN TrimLeft(Tail(s), cutset) ELSE s

RECURSIVE TrimRight(_, _)
TrimRight(s, cutset) ==
    IF s # <<>> /\ s[Len(s)] \in cutset
    THEN TrimRight(SubSeq(s, 1, Len(s) - 1), cutset) ELSE s

\* strings.Trim(s, cutset)
Trim(s, cutset) == TrimRight(TrimLeft(s, cutset), cutset)

\* the locals of a call that has not started
Idle ==
    [ op |-> "idle", root |-> nil, n |-> nil, prev |-> nil, steps |-> 0,
      delta |-> 0, sum |-> 0, seen |-> <<>>, fwd |-> <<>>,
      frag |-> BadFragment, colour |-> FALSE, indent |-> <<>>, out |-> <<>>,
      writes |-> 0, err |-> FALSE, panic |-> FALSE, done |-> FALSE,
      found |-> <<>>, text |-> <<>>, bool |-> FALSE, n1 |-> nil, n2 |-> nil ]

\* one iteration of the loop of PrintTree, going on after a failed write
PrintTreeIterNoAbort(h, st, ok) ==
    LET printed == h[st.n].Type # "TextNode" \/ Trim(h[st.n].Data, Cutset) # <<>>
        line == st.indent \o String(h, st.n, st.colour) \o <<"\n">>
        r == Next(h, st.n, st.root)
        up == IF r.delta < 0 THEN 2 * (0 - r.delta) ELSE 0
    IN  [ st EXCEPT
            !.writes = IF printed THEN @ + 1 ELSE @,
            !.err = @ \/ (printed /\ ~ok),
            !.out = IF printed /\ ok THEN Append(@, line) ELSE @,
            !.prev = st.n, !.n = r.n, !.delta = r.delta, !.steps = @ + 1,
            !.seen = IF r.n # nil THEN Append(@, r.n) ELSE @,
            !.indent = IF r.delta = 1 THEN @ \o <<" ", " ">>
                       ELSE SubSeq(@, 1, Len(@) - up),
            !.done = (r.n = nil) ]

\* one iteration of the loop of PrintTree that skips no text node
PrintTreeIterNoSkip(h, st, ok) ==
    LET line == st.indent \o String(h, st.n, st.colour) \o <<"\n">>
        r == Next(h, st.n, st.root)
        up == IF r.delta < 0 THEN 2 * (0 - r.delta) ELSE 0
    IN  IF ~ok
        THEN [st EXCEPT !.writes = @ + 1, !.err = TRUE, !.done = TRUE]
        ELSE [ st EXCEPT
                 !.writes = @ + 1,
                 !.out = Append(@, line),
                 !.prev = st.n, !.n = r.n, !.delta = r.delta, !.steps = @ + 1,
                 !.seen = IF r.n # nil THEN Append(@, r.n) ELSE @,
                 !.indent = IF r.delta = 1 THEN @ \o <<" ", " ">>
                            ELSE SubSeq(@, 1, Len(@) - up),
                 !.done = (r.n = nil) ]

\* one iteration of the loop of PrintTree; ok tells whether the write, if
\* there is one, succeeds.  indent[:len(indent)-2] panics on a shorter indent.
PrintTreeIter(h, st, ok) ==
    LET printed == h[st.n].Type # "TextNode" \/ Trim(h[st.n].Data, Cutset) # <<>>
        line == st.indent \o String(h, st.n, st.colour) \o <<"\n">>
        r == Next(h, st.n, st.root)
        up == IF r.delta < 0 THEN 2 * (0 - r.delta) ELSE 0
    IN  IF printed /\ ~ok
        THEN [st EXCEPT !.writes = @ + 1, !.err = TRUE, !.done = TRUE]
        ELSE LET st1 == [ st EXCEPT
                            !.writes = IF printed THEN @ + 1 ELSE @,
                            !.out = IF printed THEN Append(@, line) ELSE @,
                            !.prev = st.n, !.n = r.n, !.delta = r.delta,
                            !.steps = @ + 1,
                            !.seen = IF r.n # nil THEN Append(@, r.n) ELSE @ ]
             IN  IF r.delta = 1
                 THEN [st1 EXCEPT !.indent = @ \o <<" ", " ">>]
                 ELSE IF up > Len(st.indent)
                      THEN [st1 EXCEPT !.panic = TRUE, !.done = TRUE]
                      ELSE [ st1 EXCEPT
                               !.indent = SubSeq(@, 1, Len(@) - up),
                               !.done = (r.n = nil) ]

-----------------------------------------------------------------------------
(* The state machine: nodes is the heap the caller holds, call the         *)
(* operation in progress (or the last one) with its arguments, locals and  *)
(* result.  The package is single threaded: one call at a time.            *)

Ids == DOMAIN nodes

\* no call is in progress and no result is held
Returned == call.op = "idle"

\* the heaps of the document trees: every tree of MaxNodes nodes, labelled
\* as the parser labels them (a text node has no children)
InitDoc ==
    /\ \E par \in TreeVecs(MaxNodes) :
         \E lab \in [1..MaxNodes -> DocShapes] :
            /\ \A i \in 1..MaxNodes :
                 lab[i].Type = "TextNode" => \A j \in 1..MaxNodes : par[j] # i
            /\ nodes = MkHeap(0, par, lab)
    /\ call = Idle

\* the heaps of two single nodes, the comparator's inputs
InitPair ==
    /\ \E s1 \in CompareShapes, s2 \in CompareShapes :
         nodes = MkHeap(0, <<0, 0>>, <<s1, s2>>)
    /\ call = Idle

\* the heaps of two chains, the matcher's inputs
InitChains ==
    /\ \E lab \in [1..(MaxDocChain + MaxPatChain) -> ChainShapes] :
         nodes = MkHeap(0, [i \in 1..(MaxDocChain + MaxPatChain) |->
                              IF i = 1 \/ i = MaxDocChain + 1 THEN 0 ELSE i - 1],
                        lab)
    /\ call = Idle

Init == InitDoc

InitMatch == InitPair \/ InitChains

DoCompare(n1, n2) ==
    /\ Returned
    /\ call' = [Idle EXCEPT !.op = "Compare", !.n1 = n1, !.n2 = n2, !.done = TRUE,
                            !.bool = Compare(nodes, n1, n2)]
    /\ UNCHANGED nodes

DoMatch(n1, n2) ==
    /\ Returned
    /\ call' = [Idle EXCEPT !.op = "Match", !.n1 = n1, !.n2 = n2, !.done = TRUE,
                            !.bool = Match(nodes, n1, n2)]
    /\ UNCHANGED nodes

DoFind(root, fragment) ==
    /\ Returned
    /\ call' = [Idle EXCEPT !.op = "Find", !.root = root, !.frag = fragment,
                            !.done = TRUE,
                            !.found = Find(nodes, root, fragment)]
    /\ UNCHANGED nodes

DoFlatten(root) ==
    /\ Returned
    /\ call' = [Idle EXCEPT !.op = "Flatten", !.root = root, !.done = TRUE,
                            !.text = Flatten(nodes, root)]
    /\ UNCHANGED nodes

\* a caller's loop of Next calls: for n := root; n != nil; n, _ = Next(n, root)
NextStart(root) ==
    /\ Returned
    /\ call' = [Idle EXCEPT !.op = "Next", !.root = root, !.n = root,
                            !.seen = <<root>>]
    /\ UNCHANGED nodes

NextStep ==
    /\ call.op = "Next" /\ ~call.done
    /\ LET r == Next(nodes, call.n, call.root)
       IN  call' = [ call EXCEPT
                       !.prev = call.n, !.n = r.n, !.delta = r.delta,
                       !.sum = @ + r.delta, !.steps = @ + 1,
                       !.seen = IF r.n # nil THEN Append(@, r.n) ELSE @,
                       !.done = (r.n = nil) ]
    /\ UNCHANGED nodes

\* a caller's loop of Prev calls from the last node of a finished Next loop
PrevStart ==
    /\ call.op = "Next" /\ call.done
    /\ call' = [Idle EXCEPT !.op = "Prev", !.root = call.root, !.fwd = call.seen,
                            !.n = call.seen[Len(call.seen)],
                            !.seen = <<call.seen[Len(call.seen)]>>]
    /\ UNCHANGED nodes

PrevStep ==
    /\ call.op = "Prev" /\ ~call.done
    /\ LET r == Prev(nodes, call.n, call.root)
       IN  call' = [ call EXCEPT
                       !.prev = call.n, !.n = r.n, !.delta = r.delta,
                       !.sum = @ + r.delta, !.steps = @ + 1,
                       !.seen = IF r.n # nil THEN Append(@, r.n) ELSE @,
                       !.done = (r.n = nil) ]
    /\ UNCHANGED nodes

PrintTreeStart(root, colour) ==
    /\ Returned
    /\ call' = [Idle EXCEPT !.op = "PrintTree", !.root = root, !.n = root,
                            !.colour = colour,
                            !.seen = IF root # nil THEN <<root>> ELSE <<>>,
                            !.done = (root = nil)]
    /\ UNCHANGED nodes

PrintTreeStep ==
    /\ call.op = "PrintTree" /\ ~call.done
    /\ \E ok \in BOOLEAN : call' = PrintTreeIter(nodes, call, ok)
    /\ UNCHANGED nodes

\* the caller drops the result of the finished call
Return ==
    /\ call.op # "idle" /\ call.done
    /\ call' = Idle
    /\ UNCHANGED nodes

Next_ ==
    \/ \E n1 \in Ids \cup {nil}, n2 \in Ids \cup {nil} : DoCompare(n1, n2)
    \/ \E n1 \in Ids \cup {nil}, n2 \in Ids \cup {nil} : DoMatch(n1, n2)
    \/ \E root \in Ids \cup {nil}, fragment \in Fragments : DoFind(root, fragment)
    \/ \E root \in Ids \cup {nil} : DoFlatten(root)
    \/ \E root \in Ids : NextStart(root)
    \/ NextStep
    \/ PrevStart
    \/ PrevStep
    \/ \E root \in Ids \cup {nil}, colour \in BOOLEAN : PrintTreeStart(root, colour)
    \/ PrintTreeStep
    \/ Return

NextMatch ==
    \/ \E n1 \in Ids \cup {nil}, n2 \in Ids \cup {nil} : DoCompare(n1, n2)
    \/ \E n1 \in Ids \cup {nil}, n2 \in Ids \cup {nil} : DoMatch(n1, n2)
    \/ Return

Spec == Init /\ [][Next_]_vars

SpecMatch == InitMatch /\ [][NextMatch]_vars

-----------------------------------------------------------------------------
(* Notions the properties are stated in, defined from the tree's links     *)
(* alone, not from the operations                                          *)

\* the ancestor chain of n: n, its parent, ... up to its root
RECURSIVE Chain(_, _)
Chain(h, n) == IF n = nil THEN <<>> ELSE <<n>> \o Chain(h, h[n].Parent)

Depth(h, n) == Len(Chain(h, n)) - 1

\* the nodes of the subtree of r in pre-order (document order)
RECURSIVE PreOrder(_, _)
RECURSIVE PreOrderFrom(_, _)
PreOrder(h, r) == <<r>> \o PreOrderFrom(h, h[r].FirstChild)
PreOrderFrom(h, c) ==
    IF c = nil THEN <<>> ELSE PreOrder(h, c) \o PreOrderFrom(h, h[c].NextSibling)

\* the children of r in child order
RECURSIVE SiblingsFrom(_, _)
SiblingsFrom(h, c) ==
    IF c = nil THEN <<>> ELSE <<c>> \o SiblingsFrom(h, h[c].NextSibling)

ChildrenOf(h, r) == SiblingsFrom(h, h[r].FirstChild)

IsPrefix(s, t) == Len(s) <= Len(t) /\ s = SubSeq(t, 1, Len(s))

Reverse(s) == [i \in 1..Len(s) |-> s[Len(s) + 1 - i]]

RECURSIVE Spaces(_)
Spaces(k) == IF k <= 0 THEN <<>> ELSE <<" ">> \o Spaces(k - 1)

AttrSet(h, n) == { h[n].Attr[i] : i \in DOMAIN h[n].Attr }

\* a text node whose payload is whitespace (space, tab, CR, LF) only
WhitespaceText(h, n) ==
    /\ h[n].Type = "TextNode"
    /\ \A i \in DOMAIN h[n].Data : h[n].Data[i] \in {" ", "\t", "\r", "\n"}

\* the payloads of the text nodes of a sequence of nodes, concatenated
RECURSIVE TextOf(_, _)
TextOf(h, ns) ==
    IF ns = <<>> THEN <<>>
    ELSE (IF h[Head(ns)].Type = "TextNode" THEN h[Head(ns)].Data ELSE <<>>)
             \o TextOf(h, Tail(ns))

\* Flatten(c) over a sequence of nodes, concatenated
RECURSIVE FlattenAll(_, _)
FlattenAll(h, cs) ==
    IF cs = <<>> THEN <<>> ELSE Flatten(h, Head(cs)) \o FlattenAll(h, Tail(cs))

\* the lines of a sequence of nodes below root, the whitespace text left out
RECURSIVE LinesOf(_, _, _, _)
LinesOf(h, ns, root, colour) ==
    IF ns = <<>> THEN <<>>
    ELSE (IF WhitespaceText(h, Head(ns)) THEN <<>>
          ELSE << Spaces(2 * (Depth(h, Head(ns)) - Depth(h, root)))
                      \o String(h, Head(ns), colour) \o <<"\n">> >>)
             \o LinesOf(h, Tail(ns), root, colour)

-----------------------------------------------------------------------------
(* Properties *)

\* C1: Find(root, fragment) is the sequence of the nodes n of root's subtree,
\* in pre-order and each once, with Match(n, Leaf(fragment)), the match
\* reading n's whole ancestor chain; it is empty when none matches.
C1_FindIsFilteredPreOrder ==
    (call.op = "Find" /\ call.root # nil) =>
        LET leaf == Leaf(call.frag)
            H == nodes @@ leaf.heap
            Hit(n) == Match(H, n, leaf.n)
        IN  call.found = SelectSeq(PreOrder(nodes, call.root), Hit)

\* C1 witness: root, a node with a parent, is found by a probe with a parent,
\* so the match read an ancestor above root; root's sibling is not returned.
C1_Witness ==
    /\ call.op = "Find" /\ call.root # nil
    /\ nodes[call.root].Parent # nil
    /\ nodes[call.root].NextSibling # nil
    /\ nodes[call.root].FirstChild # nil
    /\ Len(call.found) >= 1 /\ call.found[1] = call.root
    /\ LET leaf == Leaf(call.frag) IN leaf.heap[leaf.n].Parent # nil

\* C2: for present n1 and n2, Match(n1, n2) holds exactly when n2's chain is
\* no longer than n1's and Compare holds at every position of n2's chain.
C2_MatchIsChainCompare ==
    (call.op = "Match" /\ call.n1 # nil /\ call.n2 # nil) =>
        LET c1 == Chain(nodes, call.n1)
            c2 == Chain(nodes, call.n2)
        IN  call.bool = ( /\ Len(c2) <= Len(c1)
                          /\ \A i \in 1..Len(c2) : Compare(nodes, c1[i], c2[i]) )

\* C2 witness: in body>div>a with the pattern chain div>a, the a node matches
\* although body lies above the end of the pattern.
C2_Witness ==
    /\ call.op = "Match" /\ call.bool
    /\ call.n1 # nil /\ call.n2 # nil
    /\ nodes[call.n1].Data = Str_a
    /\ Len(Chain(nodes, call.n1)) = 3 /\ Len(Chain(nodes, call.n2)) = 2
    /\ nodes[Chain(nodes, call.n1)[2]].Data = Str_div
    /\ nodes[Chain(nodes, call.n1)[3]].Data = Str_body

\* C3 as claimed: Compare is false on an absent input, and Match is false
\* whenever n1 is absent, whatever n2 is.
C3_AbsentIsNonMatch ==
    /\ (call.op = "Compare" /\ (call.n1 = nil \/ call.n2 = nil)) => ~call.bool
    /\ (call.op = "Match" /\ call.n1 = nil) => ~call.bool

\* C3 amended: Compare is false on an absent input; Match with n1 absent is
\* false when n2 is present and true when n2 is absent too.
C3_AbsentInputs ==
    /\ (call.op = "Compare" /\ (call.n1 = nil \/ call.n2 = nil)) => ~call.bool
    /\ (call.op = "Match" /\ call.n1 = nil) => (call.bool <=> call.n2 = nil)

\* C3 witness: Match of an absent n1 with a present n2 returned false.
C3_Witness ==
    call.op = "Match" /\ call.n1 = nil /\ call.n2 # nil /\ ~call.bool

\* C4: for present a and b, Compare(a, b) holds exactly when type, name and
\* namespace are equal and every attribute triple of b is one of a; hence
\* Compare(n, n) holds.
C4_CompareIsShapeAndSubset ==
    (call.op = "Compare" /\ call.n1 # nil /\ call.n2 # nil) =>
        /\ call.bool = ( /\ nodes[call.n1].Type = nodes[call.n2].Type
                         /\ nodes[call.n1].Data = nodes[call.n2].Data
                         /\ nodes[call.n1].Namespace = nodes[call.n2].Namespace
                         /\ AttrSet(nodes, call.n2) \subseteq AttrSet(nodes, call.n1) )
        /\ (call.n1 = call.n2 => call.bool)

\* C4 witness: a node with {id=1, b=2} compared with a pattern with {id=1}
\* gives true, and the other way round false.
C4_Witness ==
    /\ call.op = "Compare" /\ call.bool
    /\ call.n1 # nil /\ call.n2 # nil
    /\ nodes[call.n1].Attr = <<Attr_id1, Attr_b2>>
    /\ nodes[call.n2].Attr = <<Attr_id1>>
    /\ ~Compare(nodes, call.n2, call.n1)

\* C5: the nodes a loop of Next calls from root has visited are a prefix of
\* the pre-order of root's subtree, the whole of it once Next returned
\* absent, which it does at the call after the last node.
C5_NextWalksPreOrder ==
    call.op = "Next" =>
        /\ IsPrefix(call.seen, PreOrder(nodes, call.root))
        /\ call.done => call.seen = PreOrder(nodes, call.root)
        /\ call.steps = Len(call.seen) - 1 + (IF call.done THEN 1 ELSE 0)
        /\ ~call.done => call.n = call.seen[Len(call.seen)]

\* C5 witness: a finished walk of a root that has a parent, a next sibling
\* and a child.
C5_Witness ==
    /\ call.op = "Next" /\ call.done
    /\ nodes[call.root].Parent # nil
    /\ nodes[call.root].NextSibling # nil
    /\ Len(call.seen) >= 2

\* C6 as claimed: the nodes of the Prev loop from the last node of the Next
\* loop are the nodes of the Next loop, reversed.
C6_PrevReversesNext ==
    (call.op = "Prev" /\ call.done) => call.seen = Reverse(call.fwd)

\* C7 as claimed: Flatten(root) is the concatenation of Flatten(c) over the
\* children c of root.
C7_FlattenIsChildren ==
    (call.op = "Flatten" /\ call.root # nil) =>
        call.text = FlattenAll(nodes, ChildrenOf(nodes, call.root))

\* C7 amended: Flatten(root) is root's own payload when root is a text node,
\* followed by the concatenation in child order of Flatten(c) over the
\* children c of root, each Flatten(c) being the text of c's subtree alone.
C7_FlattenIsOwnTextAndChildren ==
    (call.op = "Flatten" /\ call.root # nil) =>
        /\ call.text = TextOf(nodes, <<call.root>>)
                           \o FlattenAll(nodes, ChildrenOf(nodes, call.root))
        /\ \A c \in Ids :
             nodes[c].Parent = call.root =>
                 Flatten(nodes, c) = TextOf(nodes, PreOrder(nodes, c))

\* C7 witness: root has a parent and two children of different texts.
C7_Witness ==
    /\ call.op = "Flatten" /\ call.root # nil
    /\ nodes[call.root].Parent # nil
    /\ nodes[call.root].FirstChild # nodes[call.root].LastChild
    /\ Flatten(nodes, nodes[call.root].FirstChild)
           # Flatten(nodes, nodes[call.root].LastChild)
    /\ Flatten(nodes, nodes[call.root].FirstChild) # <<>>
    /\ Flatten(nodes, nodes[call.root].LastChild) # <<>>

\* the nodes PrintTree has written or tried to write a line for
Tried(ns) == SelectSeq(ns, LAMBDA n : ~WhitespaceText(nodes, n))

\* C8: a failed write ends PrintTree with the error: the failed write is the
\* last one, of the last node visited; without a failed write PrintTree
\* returns no error after the whole subtree of root.
C8_PrintTreeAbortsOnError ==
    call.op = "PrintTree" =>
        /\ call.err =>
             /\ call.done
             /\ call.writes = Len(call.out) + 1
             /\ IsPrefix(call.seen, PreOrder(nodes, call.root))
             /\ call.n = call.seen[Len(call.seen)]
             /\ call.writes = Len(Tried(call.seen))
             /\ ~WhitespaceText(nodes, call.n)
        /\ (call.done /\ ~call.err /\ call.root # nil) =>
             /\ call.seen = PreOrder(nodes, call.root)
             /\ call.writes = Len(call.out)

\* C8 witness: the second write failed with nodes of the subtree left.
C8_Witness ==
    /\ call.op = "PrintTree" /\ call.err
    /\ Len(call.out) >= 1
    /\ Len(call.seen) < Len(PreOrder(nodes, call.root))

\* C9: a Next call from n that returns m has depth(m) = depth(n) + delta,
\* with delta = 1 exactly when m is n's first child and delta <= 0
\* otherwise; the call that returns absent has delta = -(depth of n below
\* root), and the deltas of the finished loop sum to zero.
C9_DeltaTracksDepth ==
    (call.op = "Next" /\ call.steps > 0) =>
        IF call.n # nil
        THEN /\ Depth(nodes, call.n) = Depth(nodes, call.prev) + call.delta
             /\ call.delta = 1 <=> call.n = nodes[call.prev].FirstChild
             /\ call.delta # 1 => call.delta <= 0
             /\ call.sum = Depth(nodes, call.n) - Depth(nodes, call.root)
        ELSE /\ call.delta = 0 - (Depth(nodes, call.prev) - Depth(nodes, call.root))
             /\ call.sum = 0

\* C9 witness: a finished loop whose last call climbed two levels to a root
\* that has a parent.
C9_Witness ==
    /\ call.op = "Next" /\ call.done
    /\ call.delta = 0 - 2 /\ call.sum = 0
    /\ nodes[call.root].Parent # nil

\* C10: while no write has failed, PrintTree has written one line for each
\* node handled, in pre-order, but for the whitespace text nodes; each line
\* starts with two spaces per level of its node below root; the indent is
\* two spaces per level of the current node and the slicing never panics.
C10_PrintTreeLines ==
    (call.op = "PrintTree" /\ ~call.err /\ call.root # nil) =>
        /\ ~call.panic
        /\ IsPrefix(call.seen, PreOrder(nodes, call.root))
        /\ IF call.done
           THEN /\ call.out = LinesOf(nodes, PreOrder(nodes, call.root),
                                      call.root, call.colour)
                /\ call.indent = <<>>
           ELSE /\ call.out = LinesOf(nodes, SubSeq(call.seen, 1, Len(call.seen) - 1),
                                      call.root, call.colour)
                /\ call.indent =
                       Spaces(2 * (Depth(nodes, call.n) - Depth(nodes, call.root)))

\* C10 witness: a finished print of a root with a parent, in which a
\* whitespace text node, root's first child, was skipped before a line
\* indented by two spaces.
C10_Witness ==
    /\ call.op = "PrintTree" /\ call.done /\ ~call.err
    /\ call.root # nil /\ nodes[call.root].Parent # nil
    /\ Len(call.out) = 2
    /\ Len(call.seen) = 3
    /\ WhitespaceText(nodes, call.seen[2])
    /\ SubSeq(call.out[2], 1, 3) = <<" ", " ", "T">>

====
